---- MODULE Spec2Model ----
(***************************************************************************)
(* Model of app.py, the Streamlit WACC calculator.                         *)
(*                                                                         *)
(* One behaviour is one server process: the script runs top to bottom on   *)
(* every trigger (Rerun), the three fetchers are memoized process-wide by  *)
(* st.cache_data, and every other variable is rebuilt by each run.         *)
(*                                                                         *)
(* Numbers.  Fractions are exact fixed-point integers in hundredths: 0.30  *)
(* is 30 and the percentage 30.0 typed in a widget is 3000, so that the    *)
(* code's "/ 100.0" is an integer division by 100 that loses nothing on    *)
(* the inputs used here.  A product of two fractions is in 1/100^2, of     *)
(* three in 1/100^3; sums bring their terms to the same unit with One.     *)
(* Floating-point rounding is not modelled.                                *)
(*                                                                         *)
(* Dates are calendar days relative to the day of the run: 0 is today,     *)
(* -1 yesterday.                                                           *)
(***************************************************************************)
EXTENDS Integers, Sequences, FiniteSets, TLC

\* ---------------------------------------------------------------- bounds
MaxRuns == 2          \* script runs (triggers) per process
MaxVertices == 2      \* vertices of a generated yield-curve snapshot
MaxRows == 2          \* rows of a generated country-premium sheet

\* ------------------------------------------------------ program constants
dias_uteis_desejado == 2520
LookbackAttempts == 10
One == 100            \* the number 1 in hundredths

\* ------------------------------------------------------- optional values
Unbound == [kind |-> "unbound", val |-> 0]
None == [kind |-> "None", val |-> 0]
Some(v) == [kind |-> "val", val |-> v]

IsNone(x) == x.kind = "None"
IsVal(x) == x.kind = "val"

RECURSIVE SeqsUpTo(_, _)
SeqsUpTo(S, n) ==
    IF n = 0 THEN {<<>>}
    ELSE LET shorter == SeqsUpTo(S, n - 1)
         IN  shorter \cup {Append(s, x) : s \in {t \in shorter : Len(t) = n - 1}, x \in S}

Abs(x) == IF x < 0 THEN -x ELSE x

\* x / 100.0
Div100(x) == x \div 100

\* ------------------------------------------------------- data frames
\* A pandas DataFrame as the code sees it: its rows in index order.  An
\* unbound name has kind "unbound".
NoFrame == [kind |-> "unbound", rows |-> <<>>]
Frame(rows) == [kind |-> "DataFrame", rows |-> rows]

\* DataFrame.empty
Empty(df) == df.rows = <<>>

\* ------------------------------------------------------- beta workbook
\* What pd.read_excel finds behind the betas URL: it raises, or yields the
\* sheet's rows (a blank Industry Name is the sheet's NaN).
BetaSheets ==
    { [raises |-> TRUE, rows |-> <<>>],
      [raises |-> FALSE, rows |-> <<>>],
      [raises |-> FALSE, rows |-> << [name |-> "", beta |-> 0],
                                     [name |-> "Steel", beta |-> 120] >>],
      [raises |-> FALSE, rows |-> << [name |-> "Steel", beta |-> 120],
                                     [name |-> "Retail", beta |-> -50],
                                     [name |-> "Steel", beta |-> 80] >>] }

\* get_beta_data without its cache
get_beta_data(sheet) ==
    IF sheet.raises THEN Frame(<<>>)
    ELSE Frame(SelectSeq(sheet.rows, LAMBDA r : r.name # ""))

\* ---------------------------------------------------- premium workbook
Countries == {"Brazil", "Chile"}
Premiums == {5, 7}

ErpRow == [country : Countries, erp : Premiums]

ErpSheets ==
    {[raises |-> TRUE, has_col |-> FALSE, rows |-> <<>>]}
    \cup [raises : {FALSE}, has_col : BOOLEAN, rows : SeqsUpTo(ErpRow, MaxRows)]

NoSheet == [raises |-> TRUE, has_col |-> FALSE, rows |-> <<>>]

\* df[df.iloc[:, 0] == 'Brazil']
brazil_data(sheet) == SelectSeq(sheet.rows, LAMBDA r : r.country = "Brazil")

\* get_brazil_risk_premiums without its cache:
\* brazil_data['Total Equity Risk Premium'].iloc[0], None on any exception
get_brazil_risk_premiums(sheet) ==
    IF sheet.raises THEN None                         \* read_excel failed
    ELSE IF ~sheet.has_col THEN None                  \* KeyError
    ELSE IF Len(brazil_data(sheet)) = 0 THEN None     \* IndexError
    ELSE Some(brazil_data(sheet)[1].erp)

\* ------------------------------------------------------- yield curve
\* What get_ettj(date, curva='PRE') can hand back for one date: it raises,
\* or returns None, or an object that is no DataFrame, or a DataFrame that
\* is empty (no curve published that day) or holds the curve's vertices.
\* wellformed is FALSE for a frame on which the extraction raises (a column
\* is missing, or 'Dias Corridos' is not numeric); day is the date asked for.
Tenors == {2900, 3600, 3700}
Taxas == {1000, 1200}

Vertex == [prazo : Tenors, taxa : Taxas]

ExampleCurve ==
    << [prazo |-> 30, taxa |-> 1000], [prazo |-> 720, taxa |-> 1000],
       [prazo |-> 1800, taxa |-> 1000], [prazo |-> 2900, taxa |-> 1200] >>

Curves == (SeqsUpTo(Vertex, MaxVertices) \ {<<>>}) \cup {ExampleCurve}

NoneObj == [kind |-> "None", rows |-> <<>>, wellformed |-> FALSE, day |-> 0]
OtherObj(d) == [kind |-> "object", rows |-> <<>>, wellformed |-> FALSE, day |-> d]
CurveFrame(rows, ok, d) == [kind |-> "DataFrame", rows |-> rows, wellformed |-> ok, day |-> d]

get_ettj(d) ==
    {[raises |-> TRUE, value |-> NoneObj]}
    \cup {[raises |-> FALSE, value |-> v] :
            v \in {NoneObj, OtherObj(d), CurveFrame(<<>>, TRUE, d)}
                  \cup {CurveFrame(c, ok, d) : c \in Curves, ok \in BOOLEAN}}

\* the object has an attribute .empty (else reading it raises AttributeError)
HasEmpty(x) == x.kind = "DataFrame"

\* "if not ettj_df.empty" inside the loop's try
is_hit(x) == HasEmpty(x) /\ ~Empty(x)

\* range(10)
loop_range_short == 0 .. (LookbackAttempts - 2)

loop_range == 0 .. (LookbackAttempts - 1)

\* data_consulta -= timedelta(days=1)
previous_day(d) == d - 1

\* data_sucesso = data_consulta
data_sucesso_late(d) == Some(previous_day(d))

data_sucesso_of(d) == Some(d)

\* dias_uteis_desejado * (365 / 252): 3650.0 exactly in binary64 too
dias_corridos_estimado == (dias_uteis_desejado * 365) \div 252

\* (ettj_df[coluna_prazo] - dias_corridos_estimado).abs()
tenor_distance(rows) == [k \in 1 .. Len(rows) |-> Abs(rows[k].prazo - dias_corridos_estimado)]

\* Series.idxmin over the default index: the first position of the minimum
RECURSIVE argmin_last(_, _, _)
argmin_last(s, k, best) ==
    IF k > Len(s) THEN best
    ELSE argmin_last(s, k + 1, IF s[k] <= s[best] THEN k ELSE best)

idxmin_last(s) == argmin_last(s, 2, 1)

RECURSIVE argmin(_, _, _)
argmin(s, k, best) ==
    IF k > Len(s) THEN best
    ELSE argmin(s, k + 1, IF s[k] < s[best] THEN k ELSE best)

idxmin(s) == argmin(s, 2, 1)

indice_vertice_proximo(rows) == idxmin(tenor_distance(rows))

\* rf_info: the rate and the tenor the provenance string is formatted from
NoInfo == [kind |-> "None", rate |-> 0, prazo |-> 0]
Info(rate, prazo) == [kind |-> "val", rate |-> rate, prazo |-> prazo]

\* the three values get_risk_free_rate returns
Unavailable == [rate |-> None, info |-> NoInfo, date |-> None]
NotReturned == [rate |-> Unbound, info |-> [kind |-> "unbound", rate |-> 0, prazo |-> 0], date |-> Unbound]

\* lines 76-103: the try block over a non-empty frame
extract(df, sucesso) ==
    IF ~df.wellformed THEN Unavailable
    ELSE LET vertice_encontrado == df.rows[indice_vertice_proximo(df.rows)]
             risk_free_rate == Div100(vertice_encontrado.taxa)
         IN  [rate |-> Some(risk_free_rate),
              info |-> Info(risk_free_rate, vertice_encontrado.prazo),
              date |-> sucesso]

\* ------------------------------------------------------- WACC arithmetic
\* equity_ratio = 1 - debt_ratio
equity_ratio_of(debt_ratio) == One - debt_ratio

\* df_betas[df_betas['Industry Name'] == selected_industry]['Beta'].iloc[0]
beta_of(df, industry) == SelectSeq(df.rows, LAMBDA r : r.name = industry)[1].beta

\* cost_of_equity = rf_rate + beta * erp_brazil + size_premium, in 1/100^2
cost_of_equity_no_size(rf, beta, erp, size_premium) == rf * One + beta * erp

cost_of_equity_of(rf, beta, erp, size_premium) == rf * One + beta * erp + size_premium * One

\* wacc = (equity_ratio * cost_of_equity) + (debt_ratio * cost_of_debt * (1 - tax_rate)),
\* in 1/100^3
wacc_of(equity_ratio, cost_of_equity, debt_ratio, cost_of_debt, tax_rate) ==
    (equity_ratio * cost_of_equity) + (debt_ratio * cost_of_debt * (One - tax_rate))

\* sorted(df_betas['Industry Name'].unique())
industry_list(df) == {df.rows[k].name : k \in 1 .. Len(df.rows)}

\* the values the number_input widgets can deliver (percent, in hundredths)
DebtRatioPcts == {0, 3000, 10000}
CostOfDebtPcts == {0, 900}
TaxRatePcts == {0, 3400}
SizePremiumPcts == {0, 200}
ManualRfPcts == {1000, 1100}

\* ------------------------------------------------------------- state
VARIABLES
    pc,             \* where the process is in the script
    runs,           \* script runs started so far
    cache,          \* st.cache_data: one entry per fetcher
    cache_hits,     \* fetchers answered from the cache in this run
    net_calls,      \* fetchers that went to their data source in this run
    rendered,       \* st elements put on the page in this run
    df_betas, erp_brazil, rf_rate, rf_info_str, data_base_rf,
    erp_df, erp,    \* get_brazil_risk_premiums: sheet read, value selected
    i, data_consulta, ettj_df, data_sucesso,   \* get_risk_free_rate's locals
    queried,        \* the get_ettj calls so far: the date asked for, and whether
                    \* the answer was a non-empty frame
    rf_return,      \* the tuple get_risk_free_rate is about to return
    manual,         \* what the user wants for a manual risk-free rate
    widgets,        \* values read from the input widgets
    summary         \* the computed results and the summary table

vars == << pc, runs, cache, cache_hits, net_calls, rendered, df_betas, erp_brazil,
           rf_rate, rf_info_str, data_base_rf, erp_df, erp, i, data_consulta, ettj_df,
           data_sucesso, queried, rf_return, manual, widgets, summary >>

script_vars == << df_betas, erp_brazil, rf_rate, rf_info_str, data_base_rf >>
erp_locals == << erp_df, erp >>
rf_locals == << i, data_consulta, ettj_df, data_sucesso, queried, rf_return >>
page_vars == << manual, widgets, summary >>

Fetchers == {"beta", "erp", "rf"}

EmptyCache ==
    [f \in Fetchers |->
        [filled |-> FALSE,
         value |-> CASE f = "beta" -> NoFrame [] f = "erp" -> Unbound [] f = "rf" -> NotReturned,
         messages |-> {}]]

\* st.cache_data keeps whatever the function returned, with the st elements
\* the call produced, and replays both on a later call
Store(f, v, msgs) == [cache EXCEPT ![f] = [filled |-> TRUE, value |-> v, messages |-> msgs]]

NoManual == [override |-> FALSE, rf_pct |-> 1000]

NoWidgets ==
    [selected_industry |-> "", debt_ratio_pct |-> 0, cost_of_debt_pct |-> 0,
     tax_rate_pct |-> 0, size_premium_pct |-> 0]

NoSummary ==
    [kind |-> "unbound", data_base |-> 0, rf |-> 0, rf_fonte |-> "", erp |-> 0,
     industry |-> "", beta |-> 0, size_premium |-> 0, equity_ratio |-> 0,
     debt_ratio |-> 0, cost_of_debt |-> 0, tax_rate |-> 0, cost_of_equity |-> 0,
     wacc |-> 0]

Init ==
    /\ pc = "load_beta"
    /\ runs = 1
    /\ cache = EmptyCache
    /\ cache_hits = {}
    /\ net_calls = {}
    /\ rendered = {}
    /\ df_betas = NoFrame
    /\ erp_brazil = Unbound
    /\ rf_rate = Unbound
    /\ rf_info_str = NotReturned.info
    /\ data_base_rf = Unbound
    /\ erp_df = NoSheet
    /\ erp = Unbound
    /\ i = 0
    /\ data_consulta = 0
    /\ ettj_df = NoneObj
    /\ data_sucesso = None
    /\ queried = <<>>
    /\ rf_return = NotReturned
    /\ manual = NoManual
    /\ widgets = NoWidgets
    /\ summary = NoSummary

\* ----------------------------------------------------- df_betas = get_beta_data()
LoadBeta ==
    /\ pc = "load_beta"
    /\ IF cache["beta"].filled
       THEN /\ df_betas' = cache["beta"].value
            /\ rendered' = rendered \cup cache["beta"].messages
            /\ cache_hits' = cache_hits \cup {"beta"}
            /\ UNCHANGED << cache, net_calls >>
       ELSE \E sheet \in BetaSheets :
               LET msgs == IF sheet.raises THEN {"error_beta"} ELSE {}
               IN  /\ df_betas' = get_beta_data(sheet)
                   /\ rendered' = rendered \cup msgs
                   /\ cache' = Store("beta", get_beta_data(sheet), msgs)
                   /\ net_calls' = net_calls \cup {"beta"}
                   /\ UNCHANGED cache_hits
    /\ pc' = "load_erp"
    /\ UNCHANGED << runs, erp_brazil, rf_rate, rf_info_str, data_base_rf, erp_locals,
                    rf_locals, page_vars >>

\* ------------------------------------------ erp_brazil = get_brazil_risk_premiums()
LoadErp ==
    /\ pc = "load_erp"
    /\ IF cache["erp"].filled
       THEN /\ erp_brazil' = cache["erp"].value
            /\ rendered' = rendered \cup cache["erp"].messages
            /\ cache_hits' = cache_hits \cup {"erp"}
            /\ pc' = "load_rf"
            /\ UNCHANGED << net_calls, erp_df >>
       ELSE \E sheet \in ErpSheets :
               /\ erp_df' = sheet
               /\ net_calls' = net_calls \cup {"erp"}
               /\ pc' = "erp_select"
               /\ UNCHANGED << erp_brazil, rendered, cache_hits >>
    /\ UNCHANGED << runs, cache, df_betas, rf_rate, rf_info_str, data_base_rf, erp,
                    rf_locals, page_vars >>

ErpSelect ==
    /\ pc = "erp_select"
    /\ erp' = get_brazil_risk_premiums(erp_df)
    /\ pc' = "erp_ret"
    /\ UNCHANGED << runs, cache, cache_hits, net_calls, rendered, script_vars, erp_df,
                    rf_locals, page_vars >>

ErpReturn ==
    /\ pc = "erp_ret"
    /\ LET msgs == IF IsNone(erp) THEN {"error_erp"} ELSE {}
       IN  /\ erp_brazil' = erp
           /\ rendered' = rendered \cup msgs
           /\ cache' = Store("erp", erp, msgs)
    /\ erp_df' = NoSheet
    /\ erp' = Unbound
    /\ pc' = "load_rf"
    /\ UNCHANGED << runs, cache_hits, net_calls, df_betas, rf_rate, rf_info_str,
                    data_base_rf, rf_locals, page_vars >>

\* ------------------------- rf_rate, rf_info_str, data_base_rf = get_risk_free_rate()
LoadRf ==
    /\ pc = "load_rf"
    /\ IF cache["rf"].filled
       THEN /\ rf_rate' = cache["rf"].value.rate
            /\ rf_info_str' = cache["rf"].value.info
            /\ data_base_rf' = cache["rf"].value.date
            /\ rendered' = rendered \cup cache["rf"].messages
            /\ cache_hits' = cache_hits \cup {"rf"}
            /\ pc' = "gate"
       ELSE /\ pc' = "scan"
            /\ UNCHANGED << rf_rate, rf_info_str, data_base_rf, rendered, cache_hits >>
    /\ i' = 0
    /\ data_consulta' = 0
    /\ ettj_df' = NoneObj
    /\ data_sucesso' = None
    /\ queried' = <<>>
    /\ rf_return' = NotReturned
    /\ UNCHANGED << runs, cache, net_calls, df_betas, erp_brazil, erp_locals, page_vars >>

\* one pass of the loop body, its finally clause included
ScanStep ==
    /\ pc = "scan"
    /\ i \in loop_range
    /\ \E out \in get_ettj(data_consulta) :
          LET hit == ~out.raises /\ is_hit(out.value)
          IN  /\ ettj_df' = IF out.raises THEN ettj_df ELSE out.value
              /\ data_sucesso' = IF hit THEN data_sucesso_of(data_consulta) ELSE data_sucesso
              /\ pc' = IF hit \/ (i + 1) \notin loop_range THEN "post_loop" ELSE "scan"
              /\ queried' = Append(queried, [day |-> data_consulta, hit |-> hit])
    /\ data_consulta' = previous_day(data_consulta)
    /\ i' = i + 1
    /\ net_calls' = net_calls \cup {"rf"}
    /\ UNCHANGED << runs, cache, cache_hits, rendered, script_vars, erp_locals,
                    rf_return, page_vars >>

\* lines 75-108: the test after the loop and what it leads to.  Reading
\* .empty of an object that has none raises outside every try block.
Extract ==
    /\ pc = "post_loop"
    /\ IF ettj_df.kind = "None"
       THEN rf_return' = Unavailable /\ pc' = "rf_ret"
       ELSE IF ~HasEmpty(ettj_df)
       THEN rf_return' = rf_return /\ pc' = "crashed"
       ELSE IF Empty(ettj_df)
       THEN rf_return' = Unavailable /\ pc' = "rf_ret"
       ELSE rf_return' = extract(ettj_df, data_sucesso) /\ pc' = "rf_ret"
    /\ UNCHANGED << runs, cache, cache_hits, net_calls, rendered, script_vars, erp_locals,
                    i, data_consulta, ettj_df, data_sucesso, queried, page_vars >>

RfReturn ==
    /\ pc = "rf_ret"
    /\ LET msgs == IF IsNone(rf_return.rate) THEN {"error_rf"} ELSE {}
       IN  /\ rendered' = rendered \cup msgs
           /\ cache' = Store("rf", rf_return, msgs)
    /\ rf_rate' = rf_return.rate
    /\ rf_info_str' = rf_return.info
    /\ data_base_rf' = rf_return.date
    /\ i' = 0
    /\ data_consulta' = 0
    /\ ettj_df' = NoneObj
    /\ data_sucesso' = None
    /\ queried' = <<>>
    /\ rf_return' = NotReturned
    /\ pc' = "gate"
    /\ UNCHANGED << runs, cache_hits, net_calls, df_betas, erp_brazil, erp_locals, page_vars >>

\* ------------------------------------------------------------- the page
\* if not df_betas.empty and erp_brazil is not None and rf_rate is not None
essentials_loaded == ~Empty(df_betas) /\ ~IsNone(erp_brazil) /\ ~IsNone(rf_rate)

\* the Fonte column's entry for "Taxa Livre de Risco (Rf)"
rf_fonte == "B3 (via pyettj)"

\* lines 133-247: inputs, computation, results, summary table, formulas
Results ==
    /\ pc = "gate"
    /\ essentials_loaded
    /\ \E selected_industry \in industry_list(df_betas),
          debt_ratio_pct \in DebtRatioPcts, cost_of_debt_pct \in CostOfDebtPcts,
          tax_rate_pct \in TaxRatePcts, size_premium_pct \in SizePremiumPcts :
          LET debt_ratio == Div100(debt_ratio_pct)
              cost_of_debt == Div100(cost_of_debt_pct)
              tax_rate == Div100(tax_rate_pct)
              size_premium == Div100(size_premium_pct)
              equity_ratio == equity_ratio_of(debt_ratio)
              beta == beta_of(df_betas, selected_industry)
              cost_of_equity == cost_of_equity_of(rf_rate.val, beta, erp_brazil.val, size_premium)
              wacc == wacc_of(equity_ratio, cost_of_equity, debt_ratio, cost_of_debt, tax_rate)
          IN  /\ widgets' = [selected_industry |-> selected_industry,
                             debt_ratio_pct |-> debt_ratio_pct,
                             cost_of_debt_pct |-> cost_of_debt_pct,
                             tax_rate_pct |-> tax_rate_pct,
                             size_premium_pct |-> size_premium_pct]
              /\ summary' = [kind |-> "val", data_base |-> data_base_rf.val,
                             rf |-> rf_rate.val, rf_fonte |-> rf_fonte,
                             erp |-> erp_brazil.val, industry |-> selected_industry,
                             beta |-> beta, size_premium |-> size_premium,
                             equity_ratio |-> equity_ratio, debt_ratio |-> debt_ratio,
                             cost_of_debt |-> cost_of_debt, tax_rate |-> tax_rate,
                             cost_of_equity |-> cost_of_equity, wacc |-> wacc]
    /\ \E override \in BOOLEAN, rf_pct \in ManualRfPcts :
          manual' = [override |-> override, rf_pct |-> rf_pct]
    /\ rendered' = rendered \cup {"inputs", "results", "summary", "formulas"}
    /\ pc' = "done"
    /\ UNCHANGED << runs, cache, cache_hits, net_calls, script_vars, erp_locals, rf_locals >>

\* lines 249-250
Warn ==
    /\ pc = "gate"
    /\ ~essentials_loaded
    /\ \E override \in BOOLEAN, rf_pct \in ManualRfPcts :
          manual' = [override |-> override, rf_pct |-> rf_pct]
    /\ rendered' = rendered \cup {"warning"}
    /\ pc' = "done"
    /\ UNCHANGED << runs, cache, cache_hits, net_calls, script_vars, erp_locals, rf_locals,
                    widgets, summary >>

\* the next trigger: Streamlit runs the script again in the same process
Rerun ==
    /\ pc \in {"done", "crashed"}
    /\ runs < MaxRuns
    /\ runs' = runs + 1
    /\ pc' = "load_beta"
    /\ cache_hits' = {}
    /\ net_calls' = {}
    /\ rendered' = {}
    /\ df_betas' = NoFrame
    /\ erp_brazil' = Unbound
    /\ rf_rate' = Unbound
    /\ rf_info_str' = NotReturned.info
    /\ data_base_rf' = Unbound
    /\ erp_df' = NoSheet
    /\ erp' = Unbound
    /\ i' = 0
    /\ data_consulta' = 0
    /\ ettj_df' = NoneObj
    /\ data_sucesso' = None
    /\ queried' = <<>>
    /\ rf_return' = NotReturned
    /\ manual' = NoManual
    /\ widgets' = NoWidgets
    /\ summary' = NoSummary
    /\ UNCHANGED cache

Next ==
    \/ LoadBeta
    \/ LoadErp
    \/ ErpSelect
    \/ ErpReturn
    \/ LoadRf
    \/ ScanStep
    \/ Extract
    \/ RfReturn
    \/ Results
    \/ Warn
    \/ Rerun

Spec == Init /\ [][Next]_vars

\* ======================================================================
\* Properties
\* ======================================================================
RunEnded == pc \in {"done", "crashed"}

ScanOver == pc \in {"post_loop", "rf_ret", "crashed"}

LastQuery == queried[Len(queried)]

BrazilRows(sheet) == {k \in 1 .. Len(sheet.rows) : sheet.rows[k].country = "Brazil"}

\* C1 - Manual override precedence: whenever the results are computed in a
\* run whose manual-override flag is set, the risk-free rate used has source
\* MANUAL and equals the user-supplied percentage / 100.
ManualOverridePrecedence ==
    ("results" \in rendered /\ manual.override)
        => /\ summary.rf_fonte = "MANUAL"
           /\ summary.rf * 100 = manual.rf_pct

\* C2 - Fallback after a failed automatic resolution: a run in which
\* get_risk_free_rate returned unavailable (beta and ERP being available) ends
\* with the rate resolved manually (entered percentage / 100, source MANUAL,
\* observation date today) and the WACC results computed from it.
FallbackAfterFailedResolution ==
    (pc = "done" /\ IsNone(rf_rate) /\ ~Empty(df_betas) /\ IsVal(erp_brazil))
        => /\ "results" \in rendered
           /\ summary.kind = "val"
           /\ summary.rf_fonte = "MANUAL"
           /\ summary.rf * 100 = manual.rf_pct
           /\ summary.data_base = 0

\* C3 - WACC formula: whenever the results section is computed,
\* equity_ratio = 1 - debt_ratio, cost_of_equity = rf + beta * erp + size
\* premium and wacc = equity_ratio * cost_of_equity + debt_ratio *
\* cost_of_debt * (1 - tax_rate), on the widget values divided by 100 and the
\* loaded market data, with nothing clamped.
WaccFormula ==
    summary.kind = "val"
        => /\ summary.debt_ratio * 100 = widgets.debt_ratio_pct
           /\ summary.cost_of_debt * 100 = widgets.cost_of_debt_pct
           /\ summary.tax_rate * 100 = widgets.tax_rate_pct
           /\ summary.size_premium * 100 = widgets.size_premium_pct
           /\ summary.rf = rf_rate.val
           /\ summary.erp = erp_brazil.val
           /\ \E k \in 1 .. Len(df_betas.rows) :
                 /\ df_betas.rows[k].name = widgets.selected_industry
                 /\ df_betas.rows[k].beta = summary.beta
           /\ summary.equity_ratio + summary.debt_ratio = 100
           /\ summary.cost_of_equity
                = 100 * summary.rf + summary.beta * summary.erp + 100 * summary.size_premium
           /\ summary.wacc
                = summary.equity_ratio * summary.cost_of_equity
                  + summary.debt_ratio * summary.cost_of_debt * (100 - summary.tax_rate)

\* a negative beta, a size premium, debt at 30% taxed at 34%: cost of equity
\* below the risk-free rate, nothing clamped
WaccFormulaWitness ==
    /\ summary.kind = "val"
    /\ summary.beta < 0
    /\ summary.size_premium = 2
    /\ summary.debt_ratio = 30
    /\ summary.cost_of_debt = 9
    /\ summary.tax_rate = 34
    /\ summary.cost_of_equity < 100 * summary.rf

\* C4 - Nearest-tenor selection: over a non-empty snapshot with its two
\* columns, get_risk_free_rate selects the first vertex in snapshot order
\* among those minimising |tenor - 2520*365/252| and returns its yield / 100;
\* for tenors [30, 720, 1800, 2900] that is the 2900-day vertex.
NearestTenorSelection ==
    (pc = "rf_ret" /\ is_hit(ettj_df) /\ ettj_df.wellformed)
        => LET rows == ettj_df.rows
               target == (2520 * 365) \div 252
               dist(k) == IF rows[k].prazo >= target THEN rows[k].prazo - target
                          ELSE target - rows[k].prazo
           IN  /\ \E k \in 1 .. Len(rows) :
                     /\ \A j \in 1 .. Len(rows) : dist(j) >= dist(k)
                     /\ \A j \in 1 .. (k - 1) : dist(j) > dist(k)
                     /\ IsVal(rf_return.rate)
                     /\ rf_return.rate.val * 100 = rows[k].taxa
                     /\ rf_return.info.prazo = rows[k].prazo
                     /\ rf_return.info.rate = rf_return.rate.val
               /\ ([k \in 1 .. Len(rows) |-> rows[k].prazo] = <<30, 720, 1800, 2900>>
                      => rf_return.info.prazo = 2900)

\* 3700 and 3600 are both 50 days from the target; the first one is taken
NearestTenorWitness ==
    /\ pc = "rf_ret"
    /\ ettj_df.rows = << [prazo |-> 3700, taxa |-> 1000], [prazo |-> 3600, taxa |-> 1200] >>
    /\ ettj_df.wellformed
    /\ rf_return.info.prazo = 3700
    /\ rf_return.rate = Some(10)

\* C5 - Unavailable on exhaustion or extraction failure: when the scan ends
\* without a non-empty snapshot, or the snapshot found fails the extraction,
\* get_risk_free_rate returns (None, None, None) and no exception escapes it.
UnavailableNeverRaises ==
    ((pc = "rf_ret" \/ pc = "crashed") /\ (~is_hit(ettj_df) \/ ~ettj_df.wellformed))
        => (pc = "rf_ret" /\ rf_return = Unavailable)

\* C6 - Re-attempt after failure: a fetcher's unavailable result is never
\* served from the memoized cache; a run answered from the cache for a
\* fetcher got a successful result from it.
FailureNeverServedFromCache ==
    /\ "beta" \in cache_hits => ~Empty(df_betas)
    /\ "erp" \in cache_hits => ~IsNone(erp_brazil)
    /\ "rf" \in cache_hits => ~IsNone(rf_rate)

\* C7 - ERP ambiguous match: get_brazil_risk_premiums yields a value only
\* when exactly one row's first column is 'Brazil' and the 'Total Equity Risk
\* Premium' column exists; otherwise it yields None.
ErpExactlyOneMatch ==
    pc = "erp_ret"
        => (IsVal(erp) => (/\ ~erp_df.raises
                           /\ erp_df.has_col
                           /\ Cardinality(BrazilRows(erp_df)) = 1))

\* C8 - Availability gate: results are rendered only with a non-empty beta
\* table, a non-null ERP and a non-null risk-free rate; a run in which a
\* fetcher returned its unavailable value ends without an exception, with the
\* warning shown and no WACC computed.
AvailabilityGate ==
    /\ "results" \in rendered
          => (~Empty(df_betas) /\ IsVal(erp_brazil) /\ IsVal(rf_rate))
    /\ (RunEnded /\ \/ (df_betas.kind = "DataFrame" /\ Empty(df_betas))
                    \/ IsNone(erp_brazil)
                    \/ IsNone(rf_rate))
          => (pc = "done" /\ "warning" \in rendered /\ summary.kind = "unbound")

\* C9 as stated - Bounded backward scan with a window of 20: the dates asked
\* for are today, today-1, ... in order, a miss moves the cursor one day
\* back, and the scan gives up only after 20 attempts without a non-empty
\* snapshot.
BoundedScanOfTwenty ==
    /\ \A k \in 1 .. Len(queried) : queried[k].day = -(k - 1)
    /\ pc = "scan" => data_consulta = -Len(queried)
    /\ Len(queried) <= 20
    /\ (ScanOver /\ ~is_hit(ettj_df)) => Len(queried) = 20

\* C9 amended - the same with the window the code has: it gives up only
\* after 10 attempts without a non-empty snapshot and always stops within 10.
BoundedScanOfTen ==
    /\ \A k \in 1 .. Len(queried) : queried[k].day = -(k - 1)
    /\ pc = "scan" => data_consulta = -Len(queried)
    /\ Len(queried) <= 10
    /\ (ScanOver /\ ~is_hit(ettj_df)) => Len(queried) = 10

\* ten misses in a row, and the function about to return unavailable
BoundedScanWitness ==
    /\ pc = "rf_ret"
    /\ Len(queried) = 10
    /\ \A k \in 1 .. 10 : ~queried[k].hit
    /\ rf_return = Unavailable

\* C10 - First success wins: no date is asked for after a non-empty
\* snapshot; every earlier date was a miss; the snapshot used and the
\* observation date returned are those of the date of the hit, not of the
\* cursor, which has already moved one day back.
FirstSuccessWins ==
    /\ pc = "scan" => (~is_hit(ettj_df) /\ \A k \in 1 .. Len(queried) : ~queried[k].hit)
    /\ \A k \in 1 .. (Len(queried) - 1) : ~queried[k].hit
    /\ (ScanOver /\ is_hit(ettj_df))
          => /\ LastQuery.hit
             /\ ettj_df.day = LastQuery.day
             /\ data_sucesso = Some(LastQuery.day)
             /\ data_consulta = LastQuery.day - 1
    /\ (pc = "rf_ret" /\ IsVal(rf_return.rate))
          => /\ is_hit(ettj_df)
             /\ rf_return.date = Some(LastQuery.day)

\* two misses, then a hit on the day before yesterday
FirstSuccessWitness ==
    /\ pc = "rf_ret"
    /\ Len(queried) = 3
    /\ IsVal(rf_return.rate)
    /\ rf_return.date = Some(-2)
    /\ data_consulta = -3

====
